---- MODULE Spec2Model ----
(***************************************************************************)
(* Model of draw-size-app:                                                 *)
(*   - the project API of backend/app/routes.py over the tables of         *)
(*     backend/app/models.py,                                              *)
(*   - the standalone app of backend/app/main.py (image_store, /upload,    *)
(*     /transform),                                                        *)
(*   - the interactive flood-fill tool floodfill-03.py.                    *)
(* The three programs share no state; the variable app says which one a    *)
(* behaviour is about.  A handler of the API is a coroutine: it runs from  *)
(* one await to the next in one step, and reqs holds, for each request in  *)
(* flight, the await it is suspended at and its local variables.  Real     *)
(* lengths are integral in the model; the one float computation of the     *)
(* code, the output width, is carried out in binary64.  An Optional value  *)
(* is <<>> (None) or <<v>>.                                                *)
(***************************************************************************)
EXTENDS Integers, Sequences, FiniteSets, TLC

VARIABLES
    app,            \* which program runs: "project", "main" or "floodfill"
    projects,       \* table data.projects: project id -> user_id
    issued,         \* how many project ids uuid4 has handed out
    images,         \* table data.project_images: image id -> row
    deselections,   \* table data.image_deselections: sequence of rows
    files,          \* storage/<image_id>_transformed.jpg: image id -> canvas
    image_store,    \* main.py: image_store
    reqs,           \* the requests: idle, suspended at an await, or answered
    img,            \* floodfill-03.py: img
    current_mask,   \* floodfill-03.py: current_mask
    fill,           \* floodfill-03.py: the cv2.floodFill call in progress
    tol,            \* floodfill-03.py: TOLERANCE as configured for this run
    probe           \* the seed under study and the result of the earlier run

vars == <<app, projects, issued, images, deselections, files, image_store,
          reqs, img, current_mask, fill, tol, probe>>

apiVars == <<projects, issued, images, deselections, files, image_store, reqs>>
fillVars == <<img, current_mask, fill, tol, probe>>

\* ------------------------------------------------------------------------
\* Optional values
\* ------------------------------------------------------------------------
None == <<>>
Some(v) == <<v>>
IsSome(o) == o # <<>>
Get(o) == o[1]

Range(s) == {s[k] : k \in DOMAIN s}

\* ------------------------------------------------------------------------
\* Bounds of the model
\* ------------------------------------------------------------------------
\* longest deselection list a client submits
MaxItems == 2
\* largest real-world length a client submits
MaxLen == 3

\* ------------------------------------------------------------------------
\* Users, projects, ownership
\* ------------------------------------------------------------------------
Users == {"alice", "bob"}
\* the projects that exist at the start, and whose they are
ProjectIds == {"p1", "p2"}
ProjectOwner == [p \in ProjectIds |-> IF p = "p1" THEN "alice" ELSE "bob"]
ImageIds == {1, 2}

\* the fields save_image_analysis copies, in the order of its loop
AnalysisFields == <<"mask_coverage_percent", "deselect_area",
                    "effective_deselect_area", "usable_area", "cemented_area",
                    "cemented_percent", "sort_key_numeric", "real_width",
                    "real_height", "real_unit">>

\* the AreaSummary fields of an image row
SummaryFields == {"mask_coverage_percent", "deselect_area",
                  "effective_deselect_area", "usable_area", "cemented_area",
                  "cemented_percent", "sort_key_numeric"}

\* a row of data.project_images right after upload_project_image
NewImage(pid) ==
    [project_id |-> pid, status |-> "new", storage_transformed_path |-> None,
     width_px |-> 640, height_px |-> 480,
     real_width |-> None, real_height |-> None, real_unit |-> None,
     mask_coverage_percent |-> None, deselect_area |-> None,
     effective_deselect_area |-> None, usable_area |-> None,
     cemented_area |-> None, cemented_percent |-> None,
     sort_key_numeric |-> None, created_at |-> 1]

\* "Ensure project belongs to user": the project exists and is the user's
FindProject(user, pid) == pid \in DOMAIN projects /\ projects[pid] = user

\* an ownership query that leaves out the condition on the user
FindImageOfAnyUser(user, pid, iid) ==
    /\ iid \in DOMAIN images
    /\ images[iid].project_id = pid
    /\ pid \in DOMAIN projects

\* the ownership query of the image handlers: ProjectImage joined to Project
\* on the image id, the project id and Project.user_id == current_user.id
FindImage(user, pid, iid) ==
    /\ iid \in DOMAIN images
    /\ images[iid].project_id = pid
    /\ pid \in DOMAIN projects
    /\ projects[pid] = user

\* ------------------------------------------------------------------------
\* Requests
\* ------------------------------------------------------------------------
Idle == [pc |-> "idle"]

\* the requests that can be in flight together, none started
ReqIds == {"a", "b"}
NoRequests == [r \in ReqIds |-> Idle]

\* an HTTP response: a request that has been answered
Response(code, detail, body) ==
    [pc |-> "done", code |-> code, detail |-> detail, body |-> body]

\* request r is not in flight: a client can send it
Free(r) == reqs[r].pc \in {"idle", "done"}

\* request r, of handler op, is suspended at the await pc
At(r, op, pc) == reqs[r].pc = pc /\ reqs[r].op = op

\* request r has just been answered
Answers(r) == reqs[r].pc # "done" /\ reqs'[r].pc = "done"

\* an exception no handler catches: FastAPI answers 500
InternalServerError == Response(500, "Internal Server Error", None)

\* ------------------------------------------------------------------------
\* IEEE 754 binary64 arithmetic on positive values, as Python's float does
\* it: a double is its 53 mantissa bits m (most significant first, leading
\* bit 1) and the exponent e of the leading bit
\* ------------------------------------------------------------------------
MantissaBits == 53

Reverse(s) == [k \in 1..Len(s) |-> s[Len(s) + 1 - k]]

\* n / d scaled by a power of two into [1, 2): the scaled pair and the exponent
RECURSIVE Normalize(_, _, _)
Normalize(n, d, e) ==
    IF n < d THEN Normalize(2 * n, d, e - 1)
    ELSE IF n >= 2 * d THEN Normalize(n, 2 * d, e + 1)
    ELSE [n |-> n, d |-> d, e |-> e]

\* the next count bits of r / d (r < d), most significant first
RECURSIVE DivBits(_, _, _)
DivBits(r, d, count) ==
    IF count = 0 THEN << >>
    ELSE LET b == IF 2 * r >= d THEN 1 ELSE 0
         IN <<b>> \o DivBits(2 * r - b * d, d, count - 1)

\* what is left of r after count bits of r / d
RECURSIVE DivRem(_, _, _)
DivRem(r, d, count) ==
    IF count = 0 THEN r
    ELSE DivRem(2 * r - (IF 2 * r >= d THEN d ELSE 0), d, count - 1)

\* bits (most significant first) plus one in the last place
RECURSIVE Increment(_)
Increment(bits) ==
    IF bits = << >> THEN <<1>>
    ELSE LET front == SubSeq(bits, 1, Len(bits) - 1)
         IN IF bits[Len(bits)] = 0 THEN front \o <<1>>
            ELSE Increment(front) \o <<0>>

\* round-to-nearest-even of the value bits * 2^(e - Len(bits) + 1) (leading
\* bit 1; sticky: a non-zero part lies below the last bit) to a double
RoundToDouble(bits, sticky, e) ==
    IF Len(bits) <= MantissaBits
    THEN [m |-> bits \o [k \in 1..(MantissaBits - Len(bits)) |-> 0], e |-> e]
    ELSE LET keep == SubSeq(bits, 1, MantissaBits)
             rest == SubSeq(bits, MantissaBits + 1, Len(bits))
             more == sticky \/ \E k \in 2..Len(rest) : rest[k] = 1
             up == rest[1] = 1 /\ (more \/ keep[MantissaBits] = 1)
             inc == Increment(keep)
         IN IF ~up THEN [m |-> keep, e |-> e]
            ELSE IF Len(inc) > MantissaBits
            THEN [m |-> SubSeq(inc, 1, MantissaBits), e |-> e + 1]
            ELSE [m |-> inc, e |-> e]

\* the double n / d of two doubles holding the integers n, d > 0
FloatDiv(n, d) ==
    LET s == Normalize(n, d, 0)
    IN RoundToDouble(<<1>> \o DivBits(s.n - s.d, s.d, MantissaBits),
                     DivRem(s.n - s.d, s.d, MantissaBits) # 0, s.e)

RECURSIVE CarryBits(_)
CarryBits(c) == IF c = 0 THEN << >> ELSE <<c % 2>> \o CarryBits(c \div 2)

\* k times the bits, least significant first
RECURSIVE MulBits(_, _, _)
MulBits(rev, k, carry) ==
    IF rev = << >> THEN CarryBits(carry)
    ELSE LET t == k * Head(rev) + carry
         IN <<t % 2>> \o MulBits(Tail(rev), k, t \div 2)

\* the double k * x for an integer k > 0
FloatMul(k, x) ==
    LET p == Reverse(MulBits(Reverse(x.m), k, 0))
    IN RoundToDouble(p, FALSE, x.e + Len(p) - MantissaBits)

RECURSIVE BitsToInt(_, _)
BitsToInt(bits, acc) ==
    IF bits = << >> THEN acc ELSE BitsToInt(Tail(bits), 2 * acc + Head(bits))

\* int(x) for a double x: the bits above the binary point
FloatToInt(x) == IF x.e < 0 THEN 0 ELSE BitsToInt(SubSeq(x.m, 1, x.e + 1), 0)

\* ------------------------------------------------------------------------
\* Perspective transform (routes.py transform_project_image, main.py
\* transform_image)
\* ------------------------------------------------------------------------
P00 == <<0, 0>>
P10 == <<1, 0>>
P20 == <<2, 0>>
P22 == <<2, 2>>
P02 == <<0, 2>>
\* a corner sent without its "x": {"y": 0}
NoX == <<0>>

\* the corner lists a client submits (what json.loads(corners) gives)
CornerInputs ==
    { <<P00, P20, P22, P02>>,        \* a proper quadrilateral
      <<P02, P00, P20, P22>>,        \* the same corners, rotated order
      <<P00, P10, P20, P02>>,        \* three corners on one line
      <<P00, P00, P22, P02>>,        \* a corner given twice
      <<P00, P20, P22>>,             \* three corners
      <<P00, P20, P22, P02, P10>>,   \* five corners
      << >> }                        \* none

\* the form field corners: JSON text of a list, JSON text of a number, or
\* text that is no JSON
JsonList(items) == [kind |-> "list", items |-> items]
JsonNumber == [kind |-> "number", items |-> << >>]
NotJson == [kind |-> "garbage", items |-> << >>]

\* the values of the form field a client submits
CornerTexts ==
    {JsonList(c) : c \in CornerInputs}
       \cup {JsonList(<<NoX, NoX, NoX, NoX>>), JsonNumber, NotJson}

OutputHeight == 800

\* A length as the handlers receive it (width: float, height: float): the
\* double n / 2^k.  "1.5" is 3 / 2^1, "3" is 3 / 2^0.
Dyadic(n, k) == [n |-> n, k |-> k]

\* the double of a whole number
Whole(n) == Dyadic(n, 0)

RECURSIVE Pow2(_)
Pow2(k) == IF k = 0 THEN 1 ELSE 2 * Pow2(k - 1)

\* a width and height whose quotient is no double and whose 800-fold is whole
FloatCase == <<Whole(23), Whole(5)>>

\* lengths with a fraction: 1.5 x 1.75
FractionCase == <<Dyadic(3, 1), Dyadic(7, 2)>>

\* a surface more than 800 times as high as wide
NarrowCase == <<Whole(1), Whole(OutputHeight + 1)>>

\* the (width, height) pairs a client submits: positive lengths, a zero
\* width, a zero height, a negative width, a negative height
Sizes ==
    { <<Whole(1), Whole(MaxLen)>>, <<Whole(MaxLen), Whole(1)>>,
      FloatCase, FractionCase, NarrowCase,
      <<Whole(0), Whole(1)>>, <<Whole(MaxLen), Whole(0)>>,
      <<Whole(-1), Whole(MaxLen)>>, <<Whole(1), Whole(-1)>> }

Abs(n) == IF n < 0 THEN -n ELSE n

\* width / height for the doubles width, height > 0: the quotient of the
\* numerators, its exponent moved by the difference of the scales (a division
\* by a power of two is exact)
FloatDivLengths(width, height) ==
    LET q == FloatDiv(width.n, height.n)
    IN [m |-> q.m, e |-> q.e + height.k - width.k]

\* aspect_ratio = width / height; output_width = int(output_height *
\* aspect_ratio): a float division, a float product, then truncation toward
\* zero (height # 0)
OutputWidth(width, height) ==
    LET n == IF width.n = 0 THEN 0
             ELSE FloatToInt(FloatMul(OutputHeight,
                     FloatDivLengths(Dyadic(Abs(width.n), width.k),
                                     Dyadic(Abs(height.n), height.k))))
    IN IF (width.n < 0) = (height.n < 0) THEN n ELSE -n

\* output_width for each of these sizes, as a table
RECURSIVE WidthTable(_)
WidthTable(sizes) ==
    IF sizes = {} THEN << >>
    ELSE LET s == CHOOSE t \in sizes : TRUE
         IN (s :> OutputWidth(s[1], s[2])) @@ WidthTable(sizes \ {s})

\* output_width for each size a client submits, computed once
OutputWidths == WidthTable({t \in Sizes : t[2].n # 0})

\* output_width as the handlers compute it
OutputWidthOf(width, height) ==
    IF <<width, height>> \in DOMAIN OutputWidths
    THEN OutputWidths[<<width, height>>]
    ELSE OutputWidth(width, height)

\* dst_points
DstPoints(output_width, output_height) ==
    << <<0, 0>>, <<output_width, 0>>, <<output_width, output_height>>,
       <<0, output_height>> >>

\* cv2.warpPerspective(img, matrix, (output_width, output_height)): the canvas
\* it returns.  An empty dsize (a side <= 0) makes OpenCV use the source size.
\* cv2.getPerspectiveTransform never raises: it ignores the result of its
\* linear solve, so a singular system yields a meaningless matrix.
WarpPerspective(src, output_width, output_height) ==
    [width  |-> IF output_width <= 0 THEN src.width ELSE output_width,
     height |-> IF output_width <= 0 THEN src.height ELSE output_height,
     dst    |-> DstPoints(output_width, output_height)]

\* The build-dependent outcomes of cv2.warpPerspective: OpenCV 4 treats a
\* negative dsize as empty, older builds raise cv2.error on it.
WarpOutcomes(width, height) ==
    IF height.n # 0 /\ OutputWidthOf(width, height) < 0 THEN {TRUE, FALSE}
    ELSE {TRUE}

\* How an exception that is no HTTPException is answered: routes.py lets it
\* through to FastAPI, main.py catches it and quotes its text.
Uncaught(endpoint, text) ==
    IF endpoint = "main"
    THEN [code |-> 500, detail |-> "Error transforming image: " \o text,
          canvas |-> None]
    ELSE [code |-> 500, detail |-> "Internal Server Error", canvas |-> None]

\* the handler body with the corner count checked as "fewer than 4"
TransformOutcomeAtLeast4(endpoint, found, corners, width, height, src, cv2ok) ==
    IF ~found THEN [code |-> 404, detail |-> "Image not found", canvas |-> None]
    ELSE IF corners.kind = "garbage"
    THEN [code |-> 400, detail |-> "Invalid corners format", canvas |-> None]
    ELSE IF corners.kind = "number"
    THEN Uncaught(endpoint, "object of type 'int' has no len()")
    ELSE IF Len(corners.items) < 4
    THEN [code |-> 400, detail |-> "Exactly 4 corners required", canvas |-> None]
    ELSE IF src = None
    THEN [code |-> 500, detail |-> "Stored image could not be read",
          canvas |-> None]
    ELSE IF \E k \in 1..4 : Len(corners.items[k]) # 2
    THEN Uncaught(endpoint, "'x'")
    ELSE IF height.n = 0
    THEN Uncaught(endpoint, "float division by zero")
    ELSE IF ~cv2ok
    THEN Uncaught(endpoint, "cv2.error")
    ELSE [code |-> 200, detail |-> "",
          canvas |-> Some(WarpPerspective(Get(src), OutputWidthOf(width, height),
                                          OutputHeight))]

\* The handler body shared by both transform endpoints, from the result of
\* the lookup to the warp: the response it ends with and the canvas it
\* produced, if any.  src is the original as read (None: cv2.imread gave
\* None), cv2ok whether cv2.warpPerspective returns.
TransformOutcome(endpoint, found, corners, width, height, src, cv2ok) ==
    IF ~found THEN [code |-> 404, detail |-> "Image not found", canvas |-> None]
    ELSE IF corners.kind = "garbage"    \* json.JSONDecodeError
    THEN [code |-> 400, detail |-> "Invalid corners format", canvas |-> None]
    ELSE IF corners.kind = "number"     \* len() raises TypeError
    THEN Uncaught(endpoint, "object of type 'int' has no len()")
    ELSE IF Len(corners.items) # 4
    THEN [code |-> 400, detail |-> "Exactly 4 corners required", canvas |-> None]
    ELSE IF src = None
    THEN [code |-> 500, detail |-> "Stored image could not be read",
          canvas |-> None]
    ELSE IF \E k \in 1..4 : Len(corners.items[k]) # 2  \* KeyError: 'x'
    THEN Uncaught(endpoint, "'x'")
    ELSE IF height.n = 0    \* width / height raises ZeroDivisionError
    THEN Uncaught(endpoint, "float division by zero")
    ELSE IF ~cv2ok          \* cv2.error out of warpPerspective
    THEN Uncaught(endpoint, "cv2.error")
    ELSE [code |-> 200, detail |-> "",
          canvas |-> Some(WarpPerspective(Get(src), OutputWidthOf(width, height),
                                          OutputHeight))]

\* the response body of a successful transform
TransformBody(iid, width, height) ==
    Some([image_id |-> iid, width |-> OutputWidthOf(width, height),
          height |-> OutputHeight,
          real_dimensions |-> [width |-> width, height |-> height,
                               unit |-> "meters"]])

\* the update with real_unit left out
TransformRowWithoutUnit(row, iid, width, height) ==
    [row EXCEPT !.storage_transformed_path = Some(iid),
                !.real_width = Some(width),
                !.real_height = Some(height),
                !.status = "ready"]

\* "Update DB with transform info"
TransformRow(row, iid, width, height) ==
    [row EXCEPT !.storage_transformed_path = Some(iid),
                !.real_width = Some(width),
                !.real_height = Some(height),
                !.real_unit = Some("m"),
                !.status = "ready"]

\* the greatest member of a set of naturals, 0 for the empty set
RECURSIVE MaxOf(_)
MaxOf(S) ==
    IF S = {} THEN 0
    ELSE LET x == CHOOSE y \in S : TRUE
             m == MaxOf(S \ {x})
         IN IF x >= m THEN x ELSE m

\* uuid4() for an image: an id no file and no row has had
FreshId == MaxOf(DOMAIN files) + 1

\* ------------------------------------------------------------------------
\* The database session of a request (database.py get_db): one AsyncSession
\* per request; an exception leaves through "async with", which closes the
\* session and rolls back what it has not committed
\* ------------------------------------------------------------------------
\* the awaits of the handlers on their database session
DbAwaits == {"await_select", "await_current", "await_older", "await_rows",
             "await_delete", "await_cascade", "await_commit", "await_refresh"}

\* the database fails at an await (connection lost, statement refused): the
\* exception ends the request; what the request has committed stays
DbError(r) ==
    /\ app = "project"
    /\ reqs[r].pc \in DbAwaits
    /\ reqs' = [reqs EXCEPT ![r] = InternalServerError]
    /\ UNCHANGED <<app, projects, issued, images, deselections, files,
                   image_store, fillVars>>

\* the UPDATE the unit of work sends for a row: the columns the handler set
\* to a value other than the loaded one, written to the row as stored now
RowUpdate(stored, loaded, obj) ==
    [f \in DOMAIN stored |-> IF obj[f] # loaded[f] THEN obj[f] ELSE stored[f]]

\* what schemas.ProjectImageRead shows of a stored row
ReadFields == {"project_id", "width_px", "height_px", "real_width",
               "real_height", "real_unit", "mask_coverage_percent",
               "deselect_area", "effective_deselect_area", "usable_area",
               "cemented_area", "cemented_percent", "sort_key_numeric",
               "status", "created_at"}

ImageRead(iid) ==
    Some([id |-> iid] @@ [f \in ReadFields |-> images[iid][f]])

\* POST /projects/{project_id}/images/{image_id}/transform: the request
\* arrives and the handler awaits its ownership query
TransformProjectImage(r, user, pid, iid, corners, width, height) ==
    /\ app = "project"
    /\ Free(r)
    /\ reqs' = [reqs EXCEPT ![r] =
                   [pc |-> "await_select", op |-> "transform", user |-> user,
                    project_id |-> pid, image_id |-> iid, corners |-> corners,
                    width |-> width, height |-> height]]
    /\ UNCHANGED <<app, projects, issued, images, deselections, files,
                   image_store, fillVars>>

\* The query has answered.  Up to "await db.commit()" the handler runs without
\* giving way: the checks, cv2.imread of the original, the warp and
\* cv2.imwrite of the transformed file; the row is changed in the request's
\* session only.
TransformProjectImageRun(r, readable, cv2ok) ==
    /\ app = "project"
    /\ At(r, "transform", "await_select")
    /\ LET q == reqs[r]
           found == FindImage(q.user, q.project_id, q.image_id)
           src == IF found /\ readable
                  THEN Some([width |-> images[q.image_id].width_px,
                             height |-> images[q.image_id].height_px])
                  ELSE None
           out == TransformOutcome("project", found, q.corners, q.width,
                                   q.height, src, cv2ok)
       IN IF out.code = 200
          THEN /\ files' = [files EXCEPT ![q.image_id] = out.canvas]
               /\ reqs' = [reqs EXCEPT ![r] =
                              [pc |-> "await_commit",
                               loaded |-> images[q.image_id],
                               obj |-> TransformRow(images[q.image_id],
                                                    q.image_id, q.width, q.height),
                               items |-> None, tx_deleted |-> FALSE] @@ q]
          ELSE /\ reqs' = [reqs EXCEPT ![r] =
                              Response(out.code, out.detail, None)]
               /\ UNCHANGED files
    /\ UNCHANGED <<app, projects, issued, images, deselections, image_store,
                   fillVars>>

\* main.py POST /transform: the handler has no await, it runs in one step
TransformImage(r, iid, corners, width, height, cv2ok) ==
    /\ app = "main"
    /\ Free(r)
    /\ LET found == iid \in DOMAIN image_store
           src == IF found THEN Some(image_store[iid].original) ELSE None
           out == TransformOutcome("main", found, corners, width, height, src,
                                   cv2ok)
       IN IF out.code = 200
          THEN /\ image_store' =
                    [image_store EXCEPT
                        ![iid].transformed = out.canvas,
                        ![iid].dimensions =
                            Some([width |-> width, height |-> height])]
               /\ files' = [files EXCEPT ![iid] = out.canvas]
               /\ reqs' = [reqs EXCEPT ![r] =
                              Response(200, "transform",
                                       TransformBody(iid, width, height))]
          ELSE /\ reqs' = [reqs EXCEPT ![r] =
                              Response(out.code, out.detail, None)]
               /\ UNCHANGED <<files, image_store>>
    /\ UNCHANGED <<app, projects, issued, images, deselections, fillVars>>

\* the Content-Type of an uploaded file: missing, an image type, another type
ContentTypes == {None, Some("image/png"), Some("text/plain")}

IsImageType(content_type) == content_type = Some("image/png")

\* main.py POST /upload, up to "await file.read()".  A file part without a
\* Content-Type makes startswith raise AttributeError, which the handler
\* reports as 500.
UploadImage(r, content_type, decodes) ==
    /\ app = "main"
    /\ Free(r)
    /\ reqs' = [reqs EXCEPT ![r] =
                   IF content_type = None
                   THEN Response(500, "Error processing image: 'NoneType' object has no attribute 'startswith'", None)
                   ELSE IF ~IsImageType(content_type)
                   THEN Response(400, "File must be an image", None)
                   ELSE [pc |-> "await_read", op |-> "main_upload",
                         decodes |-> decodes]]
    /\ UNCHANGED <<app, projects, issued, images, deselections, files,
                   image_store, fillVars>>

\* main.py POST /upload after the read: decode, store under a new id
UploadImageRead(r) ==
    /\ app = "main"
    /\ At(r, "main_upload", "await_read")
    /\ IF ~reqs[r].decodes
       THEN /\ reqs' = [reqs EXCEPT ![r] =
                           Response(400, "Invalid image file", None)]
            /\ UNCHANGED <<files, image_store>>
       ELSE /\ image_store' =
                  (FreshId :> [original |-> [width |-> 640, height |-> 480],
                               transformed |-> None, dimensions |-> None])
                     @@ image_store
            /\ files' = (FreshId :> None) @@ files
            /\ reqs' = [reqs EXCEPT ![r] =
                           Response(200, "upload",
                                    Some([image_id |-> FreshId, width |-> 640,
                                          height |-> 480]))]
    /\ UNCHANGED <<app, projects, issued, images, deselections, fillVars>>

\* ------------------------------------------------------------------------
\* Analysis submissions (routes.py save_image_analysis)
\* ------------------------------------------------------------------------
\* models.py: the values of the enum column ImageDeselection.shape
DeselectShapes == {"rect", "circle", "irregular"}

\* schemas.DeselectItemCreate values a client submits
RectItem ==
    [shape |-> "rect", count |-> 1, length |-> Some(2), breadth |-> Some(3),
     diameter |-> None, area |-> Some(6), unit |-> "m"]
IrregularItem ==
    [shape |-> "irregular", count |-> 3, length |-> None, breadth |-> None,
     diameter |-> None, area |-> Some(5), unit |-> "m"]
\* shape is a plain str in the schema: any string passes request validation
TriangleItem ==
    [shape |-> "triangle", count |-> 1, length |-> Some(1), breadth |-> Some(1),
     diameter |-> None, area |-> Some(1), unit |-> "m"]

ItemInputs == {RectItem, IrregularItem, TriangleItem}

DeselectionInputs == UNION {[1..n -> ItemInputs] : n \in 0..MaxItems}

\* The summary values a client submits.  1: a 4 x 3 surface with 6 deselected;
\* 2: 15 deselected, usable area clamped to 0 and the percentage left unset.
SummaryInputs ==
    << [mask_coverage_percent |-> Some(25), deselect_area |-> Some(6),
        effective_deselect_area |-> Some(6), usable_area |-> Some(6),
        cemented_area |-> Some(3), cemented_percent |-> Some(50),
        sort_key_numeric |-> Some(1), real_width |-> Some(Whole(4)),
        real_height |-> Some(Whole(3)), real_unit |-> Some("m")],
       [mask_coverage_percent |-> Some(80), deselect_area |-> Some(15),
        effective_deselect_area |-> Some(15), usable_area |-> Some(0),
        cemented_area |-> Some(3), cemented_percent |-> None,
        sort_key_numeric |-> Some(2), real_width |-> Some(Whole(4)),
        real_height |-> Some(Whole(3)), real_unit |-> Some("m")] >>

\* which fields a submission supplies: every field is Optional in the schema
FieldChoices ==
    { {}, {"deselect_area", "effective_deselect_area"},
      SummaryFields, Range(AnalysisFields) }

\* schemas.ImageAnalysisUpdate
AnalysisInput(fields, k, items) ==
    [f \in Range(AnalysisFields) \cup {"deselections"} |->
        IF f = "deselections" THEN items
        ELSE IF f \in fields THEN SummaryInputs[k][f] ELSE None]

AnalysisInputs ==
    {AnalysisInput(fs, k, items) :
        fs \in FieldChoices, k \in DOMAIN SummaryInputs,
        items \in {None} \cup {Some(l) : l \in DeselectionInputs}}

\* "Update numeric fields if provided": setattr for each value that is not None
ApplyFields(row, analysis) ==
    [f \in DOMAIN row |->
        IF f \in Range(AnalysisFields) /\ analysis[f] # None
        THEN analysis[f] ELSE row[f]]

\* models.ImageDeselection(image_id=db_image.id, shape=item.shape, ...)
DeselectionRow(iid, item) ==
    [image_id |-> iid, shape |-> item.shape, count |-> item.count,
     length |-> item.length, breadth |-> item.breadth,
     diameter |-> item.diameter, area |-> item.area, unit |-> item.unit]

DeselectionRows(iid, items) ==
    [k \in DOMAIN items |-> DeselectionRow(iid, items[k])]

\* the rows of image iid, in insertion order
DeselectionsOf(table, iid) == SelectSeq(table, LAMBDA r : r.image_id = iid)

\* a commit that inserts the new rows and loses the session's delete
CommitDeselectionsNoDelete(table, iid, deleted, items) ==
    IF items = None THEN table ELSE table \o DeselectionRows(iid, Get(items))

\* what the commit makes of the table: the session's delete of the image's
\* rows, then its added rows
CommitDeselections(table, iid, deleted, items) ==
    LET kept == IF deleted
                THEN SelectSeq(table, LAMBDA r : r.image_id # iid)
                ELSE table
    IN IF items = None THEN kept ELSE kept \o DeselectionRows(iid, Get(items))

\* the flush of the commit: the enum column rejects any other shape
FlushOk(items) ==
    items = None \/ \A k \in DOMAIN Get(items) : Get(items)[k].shape \in DeselectShapes

\* POST /projects/{project_id}/images/{image_id}/analysis: the request arrives
\* and the handler awaits its ownership query
SaveImageAnalysis(r, user, pid, iid, analysis) ==
    /\ app = "project"
    /\ Free(r)
    /\ reqs' = [reqs EXCEPT ![r] =
                   [pc |-> "await_select", op |-> "analysis", user |-> user,
                    project_id |-> pid, image_id |-> iid,
                    analysis |-> analysis]]
    /\ UNCHANGED <<app, projects, issued, images, deselections, files,
                   image_store, fillVars>>

\* the query has answered: the fields are set on the loaded row, and the
\* handler awaits the delete statement, or the commit when no deselections
\* are supplied
SaveImageAnalysisRun(r) ==
    /\ app = "project"
    /\ At(r, "analysis", "await_select")
    /\ LET q == reqs[r]
       IN reqs' = [reqs EXCEPT ![r] =
                      IF ~FindImage(q.user, q.project_id, q.image_id)
                      THEN Response(404, "Image not found", None)
                      ELSE [pc |-> IF q.analysis.deselections # None
                                   THEN "await_delete" ELSE "await_commit",
                            loaded |-> images[q.image_id],
                            obj |-> ApplyFields(images[q.image_id], q.analysis),
                            items |-> q.analysis.deselections,
                            tx_deleted |-> FALSE] @@ q]
    /\ UNCHANGED <<app, projects, issued, images, deselections, files,
                   image_store, fillVars>>

\* the delete statement has run inside the session's transaction; the handler
\* adds the submitted items and awaits the commit
DeleteExecuted(r) ==
    /\ app = "project"
    /\ At(r, "analysis", "await_delete")
    /\ reqs' = [reqs EXCEPT ![r].pc = "await_commit", ![r].tx_deleted = TRUE]
    /\ UNCHANGED <<app, projects, issued, images, deselections, files,
                   image_store, fillVars>>

\* "await db.commit()" of transform_project_image and save_image_analysis:
\* all of the session's changes become visible together, or the flush fails
\* (a shape the enum refuses, a row that is gone) and none does; the handler
\* then awaits the refresh
Commit(r) ==
    /\ app = "project"
    /\ reqs[r].pc = "await_commit"
    /\ reqs[r].op \in {"transform", "analysis"}
    /\ LET q == reqs[r]
       IN IF q.image_id \in DOMAIN images /\ FlushOk(q.items)
          THEN /\ images' = [images EXCEPT ![q.image_id] =
                                RowUpdate(images[q.image_id], q.loaded, q.obj)]
               /\ deselections' = CommitDeselections(deselections, q.image_id,
                                                     q.tx_deleted, q.items)
               /\ reqs' = [reqs EXCEPT ![r].pc = "await_refresh"]
          ELSE /\ reqs' = [reqs EXCEPT ![r] = InternalServerError]
               /\ UNCHANGED <<images, deselections>>
    /\ UNCHANGED <<app, projects, issued, files, image_store, fillVars>>

\* ------------------------------------------------------------------------
\* Projects, upload and the read operations of the project API (routes.py)
\* ------------------------------------------------------------------------
\* most images a project holds where the images are browsed
MaxImages == 3
\* most uploads of the client in the scenario with every operation
MaxUploads == 1

\* the ids uuid4 hands out for the projects created, in this order
NewProjectIds == <<"p3">>

\* the images of a project
ImagesOf(pid) == {i \in DOMAIN images : images[i].project_id = pid}

\* default=datetime.utcnow: what the wall clock can read at the INSERTs of n
\* uploads.  The clock need not have moved on since the reading before and it
\* can have been set back; n values give every order of n rows.
Timestamps(n) == 1..n

\* a row of data.project_images as upload_project_image inserts it
UploadedImage(pid, t) == [NewImage(pid) EXCEPT !.created_at = t]

\* POST /projects: the handler adds the project and awaits the commit
CreateProject(r, user) ==
    /\ app = "project"
    /\ Free(r)
    /\ reqs' = [reqs EXCEPT ![r] =
                   [pc |-> "await_commit", op |-> "create_project",
                    user |-> user]]
    /\ UNCHANGED <<app, projects, issued, images, deselections, files,
                   image_store, fillVars>>

\* the commit of create_project: the INSERT takes its id from uuid4
CommitCreateProject(r) ==
    /\ app = "project"
    /\ At(r, "create_project", "await_commit")
    /\ issued < Len(NewProjectIds)
    /\ projects' = (NewProjectIds[issued + 1] :> reqs[r].user) @@ projects
    /\ issued' = issued + 1
    /\ reqs' = [reqs EXCEPT ![r] =
                   [pc |-> "await_refresh",
                    project_id |-> NewProjectIds[issued + 1]] @@ reqs[r]]
    /\ UNCHANGED <<app, images, deselections, files, image_store, fillVars>>

\* DELETE /projects/{project_id}: the request arrives and the handler awaits
\* its ownership query
DeleteProject(r, user, pid) ==
    /\ app = "project"
    /\ Free(r)
    /\ reqs' = [reqs EXCEPT ![r] =
                   [pc |-> "await_select", op |-> "delete_project",
                    user |-> user, project_id |-> pid]]
    /\ UNCHANGED <<app, projects, issued, images, deselections, files,
                   image_store, fillVars>>

\* the query has answered: 404, or "await db.delete(project)"
DeleteProjectFound(r) ==
    /\ app = "project"
    /\ At(r, "delete_project", "await_select")
    /\ reqs' = [reqs EXCEPT ![r] =
                   IF ~FindProject(reqs[r].user, reqs[r].project_id)
                   THEN Response(404, "Project not found", None)
                   ELSE [reqs[r] EXCEPT !.pc = "await_cascade"]]
    /\ UNCHANGED <<app, projects, issued, images, deselections, files,
                   image_store, fillVars>>

\* the project is marked deleted in the session; the handler awaits the commit
DeleteProjectMarked(r) ==
    /\ app = "project"
    /\ At(r, "delete_project", "await_cascade")
    /\ reqs' = [reqs EXCEPT ![r].pc = "await_commit"]
    /\ UNCHANGED <<app, projects, issued, images, deselections, files,
                   image_store, fillVars>>

\* The commit of delete_project: the project row goes, and with it (cascade
\* "all, delete-orphan", ondelete CASCADE) its images and their deselections;
\* the files in storage stay.  If another request has deleted the project
\* since the query, the DELETE matches no row: the mapper has no version
\* column, so the unit of work warns and goes on and the commit succeeds.
\* The handler answers 204 with no further await.
CommitDeleteProject(r) ==
    /\ app = "project"
    /\ At(r, "delete_project", "await_commit")
    /\ LET pid == reqs[r].project_id
           gone == ImagesOf(pid)
       IN IF pid \in DOMAIN projects
          THEN /\ projects' = [p \in DOMAIN projects \ {pid} |-> projects[p]]
               /\ images' = [i \in DOMAIN images \ gone |-> images[i]]
               /\ deselections' =
                     SelectSeq(deselections, LAMBDA d : d.image_id \notin gone)
               /\ reqs' = [reqs EXCEPT ![r] = Response(204, "", None)]
          ELSE /\ reqs' = [reqs EXCEPT ![r] = Response(204, "", None)]
               /\ UNCHANGED <<projects, images, deselections>>
    /\ UNCHANGED <<app, issued, files, image_store, fillVars>>

\* POST /projects/{project_id}/images/upload: the request arrives and the
\* handler awaits its ownership query
UploadProjectImage(r, user, pid, content_type, decodes) ==
    /\ app = "project"
    /\ Free(r)
    /\ reqs' = [reqs EXCEPT ![r] =
                   [pc |-> "await_select", op |-> "upload", user |-> user,
                    project_id |-> pid, content_type |-> content_type,
                    decodes |-> decodes]]
    /\ UNCHANGED <<app, projects, issued, images, deselections, files,
                   image_store, fillVars>>

\* the query has answered: 404, 400 for a file that is no image by its
\* Content-Type, or "await file.read()"
UploadProjectImageFound(r) ==
    /\ app = "project"
    /\ At(r, "upload", "await_select")
    /\ reqs' = [reqs EXCEPT ![r] =
                   IF ~FindProject(reqs[r].user, reqs[r].project_id)
                   THEN Response(404, "Project not found", None)
                   ELSE IF ~IsImageType(reqs[r].content_type)
                   THEN Response(400, "File must be an image", None)
                   ELSE [reqs[r] EXCEPT !.pc = "await_read"]]
    /\ UNCHANGED <<app, projects, issued, images, deselections, files,
                   image_store, fillVars>>

\* the file is read: 400 if it does not decode; else the original is written
\* to storage, the row added to the session and the commit awaited
UploadProjectImageRead(r) ==
    /\ app = "project"
    /\ At(r, "upload", "await_read")
    /\ reqs' = [reqs EXCEPT ![r] =
                   IF ~reqs[r].decodes
                   THEN Response(400, "Invalid image file", None)
                   ELSE [pc |-> "await_commit", created_at |-> None]
                           @@ reqs[r]]
    /\ UNCHANGED <<app, projects, issued, images, deselections, files,
                   image_store, fillVars>>

\* "await db.commit()" of an upload, first part: the flush sends the INSERT,
\* with created_at read from the clock now (a default computed by the
\* program, not by the database).  The INSERT fails if the project is gone
\* (foreign key).  The row is in the request's transaction only.
InsertUpload(r, t) ==
    /\ app = "project"
    /\ At(r, "upload", "await_commit")
    /\ reqs[r].created_at = None
    /\ reqs' = [reqs EXCEPT ![r] =
                   IF reqs[r].project_id \in DOMAIN projects
                   THEN [reqs[r] EXCEPT !.created_at = Some(t)]
                   ELSE InternalServerError]
    /\ UNCHANGED <<app, projects, issued, images, deselections, files,
                   image_store, fillVars>>

\* "await db.commit()" of an upload, second part: the COMMIT makes the row
\* visible, with the created_at its INSERT was stamped with
CommitUpload(r) ==
    /\ app = "project"
    /\ At(r, "upload", "await_commit")
    /\ reqs[r].created_at # None
    /\ images' = (FreshId :> UploadedImage(reqs[r].project_id,
                                           Get(reqs[r].created_at)))
                     @@ images
    /\ files' = (FreshId :> None) @@ files
    /\ reqs' = [reqs EXCEPT ![r] =
                   [pc |-> "await_refresh", image_id |-> FreshId] @@ reqs[r]]
    /\ UNCHANGED <<app, projects, issued, deselections, image_store, fillVars>>

\* "await db.refresh(...)" and the return of the handler: the row is read
\* back and the response built; the refresh raises if the row is gone
Refresh(r) ==
    /\ app = "project"
    /\ reqs[r].pc = "await_refresh"
    /\ LET q == reqs[r]
       IN reqs' = [reqs EXCEPT ![r] =
             IF q.op = "create_project"
             THEN IF q.project_id \in DOMAIN projects
                  THEN Response(201, "project",
                                Some([id |-> q.project_id,
                                      user_id |-> projects[q.project_id]]))
                  ELSE InternalServerError
             ELSE IF q.image_id \notin DOMAIN images
             THEN InternalServerError
             ELSE IF q.op = "upload"
             THEN Response(201, "upload",
                           Some([id |-> q.image_id,
                                 project_id |-> images[q.image_id].project_id,
                                 width_px |-> images[q.image_id].width_px,
                                 height_px |-> images[q.image_id].height_px]))
             ELSE IF q.op = "transform"
             THEN Response(200, "transform",
                           TransformBody(q.image_id, q.width, q.height))
             ELSE Response(200, "analysis", ImageRead(q.image_id))]
    /\ UNCHANGED <<app, projects, issued, images, deselections, files,
                   image_store, fillVars>>

\* GET /projects/{project_id}/images/{image_id}: the request arrives and the
\* handler awaits its query
GetProjectImage(r, user, pid, iid) ==
    /\ app = "project"
    /\ Free(r)
    /\ reqs' = [reqs EXCEPT ![r] =
                   [pc |-> "await_select", op |-> "get_image", user |-> user,
                    project_id |-> pid, image_id |-> iid]]
    /\ UNCHANGED <<app, projects, issued, images, deselections, files,
                   image_store, fillVars>>

\* the query has answered: the image, or 404
GetProjectImageFound(r) ==
    /\ app = "project"
    /\ At(r, "get_image", "await_select")
    /\ LET q == reqs[r]
       IN reqs' = [reqs EXCEPT ![r] =
                      IF FindImage(q.user, q.project_id, q.image_id)
                      THEN Response(200, "image", ImageRead(q.image_id))
                      ELSE Response(404, "Image not found", None)]
    /\ UNCHANGED <<app, projects, issued, images, deselections, files,
                   image_store, fillVars>>

\* GET /projects/{project_id}/images/{image_id}/original: the request arrives
\* and the handler awaits its query
GetProjectImageOriginal(r, user, pid, iid) ==
    /\ app = "project"
    /\ Free(r)
    /\ reqs' = [reqs EXCEPT ![r] =
                   [pc |-> "await_select", op |-> "get_original",
                    user |-> user, project_id |-> pid, image_id |-> iid]]
    /\ UNCHANGED <<app, projects, issued, images, deselections, files,
                   image_store, fillVars>>

\* the query has answered: 404, 500 if cv2.imread gives None, else the
\* original with the stored pixel size
GetProjectImageOriginalFound(r, readable) ==
    /\ app = "project"
    /\ At(r, "get_original", "await_select")
    /\ LET q == reqs[r]
       IN reqs' = [reqs EXCEPT ![r] =
                      IF ~FindImage(q.user, q.project_id, q.image_id)
                      THEN Response(404, "Image not found", None)
                      ELSE IF ~readable
                      THEN Response(500, "Stored image could not be read", None)
                      ELSE Response(200, "original",
                                    Some([image_id |-> q.image_id,
                                          width |-> images[q.image_id].width_px,
                                          height |-> images[q.image_id].height_px]))]
    /\ UNCHANGED <<app, projects, issued, images, deselections, files,
                   image_store, fillVars>>

\* The rows the last query of get_next_image can put first: those of the
\* project with created_at < t, ordered by created_at descending.  Rows with
\* the same created_at come in no defined order.
NextCandidates(pid, t) ==
    LET older == {n \in ImagesOf(pid) : images[n].created_at < t}
    IN {n \in older : \A m \in older : images[m].created_at <= images[n].created_at}

\* GET /projects/{project_id}/images/{image_id}/next: the request arrives and
\* the handler awaits the project query
GetNextImage(r, user, pid, iid) ==
    /\ app = "project"
    /\ Free(r)
    /\ reqs' = [reqs EXCEPT ![r] =
                   [pc |-> "await_select", op |-> "next", user |-> user,
                    project_id |-> pid, image_id |-> iid]]
    /\ UNCHANGED <<app, projects, issued, images, deselections, files,
                   image_store, fillVars>>

\* the project query has answered: 404, or the query for the current image
GetNextImageProject(r) ==
    /\ app = "project"
    /\ At(r, "next", "await_select")
    /\ reqs' = [reqs EXCEPT ![r] =
                   IF ~FindProject(reqs[r].user, reqs[r].project_id)
                   THEN Response(404, "Project not found", None)
                   ELSE [reqs[r] EXCEPT !.pc = "await_current"]]
    /\ UNCHANGED <<app, projects, issued, images, deselections, files,
                   image_store, fillVars>>

\* the current image has been looked up: 404, or the query for older images
\* with its created_at
GetNextImageCurrent(r) ==
    /\ app = "project"
    /\ At(r, "next", "await_current")
    /\ LET q == reqs[r]
       IN reqs' = [reqs EXCEPT ![r] =
                      IF q.image_id \notin ImagesOf(q.project_id)
                      THEN Response(404, "Image not found", None)
                      ELSE [pc |-> "await_older",
                            current |-> images[q.image_id].created_at] @@ q]
    /\ UNCHANGED <<app, projects, issued, images, deselections, files,
                   image_store, fillVars>>

\* the older images have been queried: the first of them, or 404
GetNextImageOlder(r) ==
    /\ app = "project"
    /\ At(r, "next", "await_older")
    /\ LET q == reqs[r]
       IN IF NextCandidates(q.project_id, q.current) = {}
          THEN reqs' = [reqs EXCEPT ![r] = Response(404, "No next image", None)]
          ELSE \E n \in NextCandidates(q.project_id, q.current) :
                  reqs' = [reqs EXCEPT ![r] = Response(200, "next", ImageRead(n))]
    /\ UNCHANGED <<app, projects, issued, images, deselections, files,
                   image_store, fillVars>>

\* the orders "ORDER BY created_at DESC" can return a project's rows in
ListOrders(pid) ==
    {o \in [1..Cardinality(ImagesOf(pid)) -> ImagesOf(pid)] :
        /\ \A j, k \in DOMAIN o : j # k => o[j] # o[k]
        /\ \A j, k \in DOMAIN o :
              j < k => images[o[j]].created_at >= images[o[k]].created_at}

\* GET /projects/{project_id}/images: the request arrives and the handler
\* awaits the project query
ListProjectImages(r, user, pid) ==
    /\ app = "project"
    /\ Free(r)
    /\ reqs' = [reqs EXCEPT ![r] =
                   [pc |-> "await_select", op |-> "list", user |-> user,
                    project_id |-> pid]]
    /\ UNCHANGED <<app, projects, issued, images, deselections, files,
                   image_store, fillVars>>

\* the project query has answered: 404, or the query for the rows
ListProjectImagesProject(r) ==
    /\ app = "project"
    /\ At(r, "list", "await_select")
    /\ reqs' = [reqs EXCEPT ![r] =
                   IF ~FindProject(reqs[r].user, reqs[r].project_id)
                   THEN Response(404, "Project not found", None)
                   ELSE [reqs[r] EXCEPT !.pc = "await_rows"]]
    /\ UNCHANGED <<app, projects, issued, images, deselections, files,
                   image_store, fillVars>>

\* the rows have been queried: the project's images, newest first
ListProjectImagesRows(r) ==
    /\ app = "project"
    /\ At(r, "list", "await_rows")
    /\ \E o \in ListOrders(reqs[r].project_id) :
          reqs' = [reqs EXCEPT ![r] =
                      Response(200, "list",
                               Some([k \in DOMAIN o |-> Get(ImageRead(o[k]))]))]
    /\ UNCHANGED <<app, projects, issued, images, deselections, files,
                   image_store, fillVars>>

\* ------------------------------------------------------------------------
\* Scenarios
\* ------------------------------------------------------------------------
\* the client of the project API
Clients == {"alice"}

\* the request slot of a client that sends one request at a time
Only == "a"

NoImages == [i \in {} |-> None]

TOLERANCE == 50

InitFill ==
    /\ img = None
    /\ current_mask = None
    /\ fill = Idle
    /\ tol = TOLERANCE
    /\ probe = None

\* Both apps at the start: the project API holds alice's image 1 and bob's
\* image 2, just uploaded; main.py's image_store is empty.
InitTransform ==
    /\ app \in {"project", "main"}
    /\ projects = ProjectOwner
    /\ issued = 0
    /\ images = IF app = "project"
                THEN [i \in ImageIds |-> NewImage(IF i = 1 THEN "p1" ELSE "p2")]
                ELSE NoImages
    /\ image_store = NoImages
    /\ files = [i \in DOMAIN images |-> None]
    /\ deselections = << >>
    /\ reqs = NoRequests
    /\ InitFill

\* The transform requests the client sends to the project API.  A lookup
\* that will fail does so before any other input is read.
ProjectTransformRequest ==
    \E user \in Clients, pid \in ProjectIds, iid \in ImageIds :
          IF FindImage(user, pid, iid)
          THEN \E corners \in CornerTexts, size \in Sizes :
                  TransformProjectImage(Only, user, pid, iid, corners,
                                        size[1], size[2])
          ELSE TransformProjectImage(Only, user, pid, iid, NotJson,
                                     Whole(1), Whole(1))

\* the handler goes on after its query: the stored original is readable or
\* not, cv2.warpPerspective returns or raises
ProjectTransformRun ==
    \E r \in ReqIds, readable \in BOOLEAN :
       /\ At(r, "transform", "await_select")
       /\ \E cv2ok \in WarpOutcomes(reqs[r].width, reqs[r].height) :
             TransformProjectImageRun(r, readable, cv2ok)

\* the uploads sent to main.py's app
MainUploadRequest ==
    /\ Cardinality(DOMAIN image_store) < MaxUploads
    /\ \E content_type \in ContentTypes, decodes \in BOOLEAN :
          UploadImage(Only, content_type, decodes)

\* the transform requests sent to main.py's app
MainTransformRequest ==
    \E iid \in DOMAIN image_store \cup {FreshId} :
          IF iid \in DOMAIN image_store
          THEN \E corners \in CornerTexts, size \in Sizes :
                  \E cv2ok \in WarpOutcomes(size[1], size[2]) :
                     TransformImage(Only, iid, corners, size[1], size[2], cv2ok)
          ELSE TransformImage(Only, iid, NotJson, Whole(1), Whole(1), TRUE)

NextTransform ==
    \/ ProjectTransformRequest
    \/ ProjectTransformRun
    \/ Commit(Only)
    \/ Refresh(Only)
    \/ DbError(Only)
    \/ MainUploadRequest
    \/ UploadImageRead(Only)
    \/ MainTransformRequest

SpecTransform == InitTransform /\ [][NextTransform]_vars

\* The project API after alice's image 1 was transformed for a 4 x 3 surface;
\* bob's image 2 holds one deselection and its summary.
InitAnalysis ==
    /\ app = "project"
    /\ projects = ProjectOwner
    /\ issued = 0
    /\ images =
          [i \in ImageIds |->
              IF i = 1 THEN TransformRow(NewImage("p1"), 1, Whole(4), Whole(3))
              ELSE ApplyFields(TransformRow(NewImage("p2"), 2, Whole(4), Whole(3)),
                               AnalysisInput(SummaryFields, 1, None))]
    /\ files = [i \in ImageIds |->
                  Some(WarpPerspective([width |-> 640, height |-> 480],
                                       OutputWidth(Whole(4), Whole(3)), OutputHeight))]
    /\ deselections = <<DeselectionRow(2, RectItem)>>
    /\ image_store = NoImages
    /\ reqs = NoRequests
    /\ InitFill

\* the analysis submissions the client sends
AnalysisRequest ==
    \E user \in Clients, pid \in ProjectIds, iid \in ImageIds :
          IF FindImage(user, pid, iid)
          THEN \E analysis \in AnalysisInputs :
                  SaveImageAnalysis(Only, user, pid, iid, analysis)
          ELSE \* the lookup fails before the submission is read
               SaveImageAnalysis(Only, user, pid, iid,
                                 AnalysisInput({}, 1, None))

NextAnalysis ==
    \/ AnalysisRequest
    \/ SaveImageAnalysisRun(Only)
    \/ DeleteExecuted(Only)
    \/ Commit(Only)
    \/ Refresh(Only)
    \/ DbError(Only)

SpecAnalysis == InitAnalysis /\ [][NextAnalysis]_vars

\* the submissions sent where every operation is used: every field of the
\* first summary with one rectangle; an item the enum column refuses
ProjectAnalysisInputs ==
    { AnalysisInput(Range(AnalysisFields), 1, Some(<<RectItem>>)),
      AnalysisInput({}, 1, Some(<<TriangleItem>>)) }

\* the sizes sent with a transform where every operation is used; height 0
\* fails
ProjectSizes == { <<Whole(MaxLen), Whole(1)>>, <<Whole(1), Whole(0)>> }

\* the corners sent with a transform where every operation is used
ProjectCorners == { JsonList(<<P00, P20, P22, P02>>), JsonList(<<P00, P20, P22>>) }

\* the projects there are, were or may come to be
AllProjectIds == ProjectIds \cup Range(NewProjectIds)

\* Any request of the client, one at a time, for any project and any image
\* id in use or not; the client uploads MaxUploads images in all and creates
\* the projects of NewProjectIds.  A lookup that will fail does so before the other
\* inputs are read.
ProjectRequest ==
    \E user \in Clients, pid \in AllProjectIds,
       iid \in DOMAIN images \cup {FreshId} :
       \/ GetProjectImage(Only, user, pid, iid)
       \/ GetProjectImageOriginal(Only, user, pid, iid)
       \/ GetNextImage(Only, user, pid, iid)
       \/ /\ Cardinality(DOMAIN files \ ImageIds) < MaxUploads
          /\ IF FindProject(user, pid)
             THEN \E content_type \in ContentTypes, decodes \in BOOLEAN :
                     UploadProjectImage(Only, user, pid, content_type, decodes)
             ELSE UploadProjectImage(Only, user, pid, None, FALSE)
       \/ IF FindImage(user, pid, iid)
          THEN \E corners \in ProjectCorners, size \in ProjectSizes :
                  TransformProjectImage(Only, user, pid, iid, corners, size[1],
                                        size[2])
          ELSE TransformProjectImage(Only, user, pid, iid, NotJson,
                                     Whole(1), Whole(1))
       \/ IF FindImage(user, pid, iid)
          THEN \E analysis \in ProjectAnalysisInputs :
                  SaveImageAnalysis(Only, user, pid, iid, analysis)
          ELSE SaveImageAnalysis(Only, user, pid, iid, AnalysisInput({}, 1, None))
       \/ DeleteProject(Only, user, pid)
       \/ /\ issued < Len(NewProjectIds)
          /\ CreateProject(Only, user)

\* alice's project is empty; bob's holds image 2, transformed, with one
\* deselection.
InitProject ==
    /\ app = "project"
    /\ projects = ProjectOwner
    /\ issued = 0
    /\ images = [i \in {2} |-> TransformRow(NewImage("p2"), 2, Whole(4), Whole(3))]
    /\ files = [i \in {2} |->
                  Some(WarpPerspective([width |-> 640, height |-> 480],
                                       OutputWidth(Whole(4), Whole(3)), OutputHeight))]
    /\ deselections = <<DeselectionRow(2, RectItem)>>
    /\ image_store = NoImages
    /\ reqs = NoRequests
    /\ InitFill

NextProject ==
    \/ ProjectRequest
    \/ GetProjectImageFound(Only)
    \/ \E readable \in BOOLEAN : GetProjectImageOriginalFound(Only, readable)
    \/ GetNextImageProject(Only)
    \/ GetNextImageCurrent(Only)
    \/ GetNextImageOlder(Only)
    \/ UploadProjectImageFound(Only)
    \/ UploadProjectImageRead(Only)
    \/ \E t \in Timestamps(MaxUploads) : InsertUpload(Only, t)
    \/ CommitUpload(Only)
    \/ ProjectTransformRun
    \/ SaveImageAnalysisRun(Only)
    \/ DeleteExecuted(Only)
    \/ Commit(Only)
    \/ Refresh(Only)
    \/ DeleteProjectFound(Only)
    \/ DeleteProjectMarked(Only)
    \/ CommitDeleteProject(Only)
    \/ CommitCreateProject(Only)
    \/ DbError(Only)

SpecProject == InitProject /\ [][NextProject]_vars

\* Clients upload images and browse them, two requests at a time: either
\* request can be suspended at an await while the other one runs.
BrowseRequest ==
    \E r \in ReqIds, user \in Clients, pid \in ProjectIds,
       iid \in DOMAIN images \cup {FreshId} :
       \/ GetProjectImage(r, user, pid, iid)
       \/ GetNextImage(r, user, pid, iid)
       \/ ListProjectImages(r, user, pid)
       \/ /\ Cardinality(ImagesOf(pid))
                + Cardinality({s \in ReqIds : reqs[s].pc \notin {"idle", "done"}
                                               /\ reqs[s].op = "upload"})
                < MaxImages
          /\ UploadProjectImage(r, user, pid, Some("image/png"), TRUE)

NextBrowse ==
    \/ BrowseRequest
    \/ \E r \in ReqIds : GetProjectImageFound(r)
    \/ \E r \in ReqIds : GetNextImageProject(r)
    \/ \E r \in ReqIds : GetNextImageCurrent(r)
    \/ \E r \in ReqIds : GetNextImageOlder(r)
    \/ \E r \in ReqIds : ListProjectImagesProject(r)
    \/ \E r \in ReqIds : ListProjectImagesRows(r)
    \/ \E r \in ReqIds : UploadProjectImageFound(r)
    \/ \E r \in ReqIds : UploadProjectImageRead(r)
    \/ \E r \in ReqIds, t \in Timestamps(MaxImages) : InsertUpload(r, t)
    \/ \E r \in ReqIds : CommitUpload(r)
    \/ \E r \in ReqIds : Refresh(r)
    \/ \E r \in ReqIds : DbError(r)

SpecBrowse == InitProject /\ [][NextBrowse]_vars

\* ------------------------------------------------------------------------
\* Two transform requests in flight together (routes.py
\* transform_project_image): each request has its own AsyncSession; the
\* handler gives way to the other request at each await
\* ------------------------------------------------------------------------
\* the transform requests sent together, one in each slot: for alice's image
\* 1, with a proper quadrilateral or too few corners, and a width and height
ConcurrentRequest ==
    \E r \in ReqIds, corners \in ProjectCorners,
       width \in {Whole(1), Whole(MaxLen)}, height \in {Whole(0), Whole(1)} :
       /\ reqs[r].pc = "idle"
       /\ TransformProjectImage(r, "alice", "p1", 1, corners, width, height)

\* the project API after the uploads, no request started
InitConcurrent ==
    /\ app = "project"
    /\ projects = ProjectOwner
    /\ issued = 0
    /\ images = [i \in ImageIds |-> NewImage(IF i = 1 THEN "p1" ELSE "p2")]
    /\ image_store = NoImages
    /\ files = [i \in ImageIds |-> None]
    /\ deselections = << >>
    /\ reqs = NoRequests
    /\ InitFill

NextConcurrent ==
    \/ ConcurrentRequest
    \/ ProjectTransformRun
    \/ \E r \in ReqIds : Commit(r)
    \/ \E r \in ReqIds : Refresh(r)
    \/ \E r \in ReqIds : DbError(r)

SpecConcurrent == InitConcurrent /\ [][NextConcurrent]_vars

\* ------------------------------------------------------------------------
\* Flood fill (floodfill-03.py)
\* ------------------------------------------------------------------------
\* width of the canvas, in pixels
CanvasW == 2
\* the rows of the canvas
CanvasRows == {0, 1}

Pixels == (0..(CanvasW - 1)) \X CanvasRows

\* BGR colours of the canvases tried: black, a grey within the tolerance of
\* it, and a red within the tolerance of the grey but not (in one channel
\* only) of black
Palette == { <<0, 0, 0>>, <<40, 40, 40>>, <<0, 0, 60>> }

\* the cells of cv2.floodFill's mask: one more on every side of the image
MaskCells == {<<x, y>> : x \in 0..(CanvasW + 1),
                         y \in 0..(Cardinality(CanvasRows) + 1)}

\* mask = np.zeros((h+2, w+2)); cv2.floodFill first sets its border to 1
FreshMask ==
    [c \in MaskCells |-> IF c[1] - 1 \in 0..(CanvasW - 1) /\ c[2] - 1 \in CanvasRows
                         THEN 0 ELSE 1]

\* the working mask kept whole, border included
WholeMask(mask) == mask

\* mask[1:-1, 1:-1]
InnerMask(mask) == [p \in Pixels |-> mask[<<p[1] + 1, p[2] + 1>>]]

\* the 4-connected neighbours of a pixel (flags: connectivity 4)
Neighbours(p) ==
    { <<p[1] + 1, p[2]>>, <<p[1] - 1, p[2]>>, <<p[1], p[2] + 1>>,
      <<p[1], p[2] - 1>> }

\* the range test done in 8-bit arithmetic: reference - tolerance and
\* reference + tolerance wrap around modulo 256
WithinWrapping(colour, reference, tolerance) ==
    \A ch \in 1..3 :
       /\ (reference[ch] - tolerance) % 256 <= colour[ch]
       /\ colour[ch] <= (reference[ch] + tolerance) % 256

\* lo_diff, up_diff: every channel within tolerance of the reference colour
Within(colour, reference, tolerance) ==
    \A ch \in 1..3 : Abs(colour[ch] - reference[ch]) <= tolerance

\* a floating range: the candidate is compared with the pixel it is reached from
JoinsFloating(canvas, seed, from, q) == Within(canvas[q], canvas[from], tol)

\* FLOODFILL_FIXED_RANGE: the candidate is compared with the seed pixel
Joins(canvas, seed, from, q) == Within(canvas[q], canvas[seed], tol)

\* a test that takes only the border cells (1) as closed, not the cells the
\* fill has marked already
UnmarkedOrFilled(mask, q) == mask[<<q[1] + 1, q[2] + 1>>] # 1

\* cv2.floodFill visits a pixel only while its mask cell is 0: the border is
\* 1 and a pixel is marked (255) at the moment it is queued
Unmarked(mask, q) == mask[<<q[1] + 1, q[2] + 1>>] = 0

\* a seed check that lets a seed one column left of the canvas through
SeedInBoundsFromMinusOne(x, y) ==
    x \in (-1)..(CanvasW - 1) /\ y \in CanvasRows

\* cv2.floodFill: (unsigned)seed.x < width and (unsigned)seed.y < height
SeedInBounds(x, y) == x \in 0..(CanvasW - 1) /\ y \in CanvasRows

\* the callback left by an exception: cv2.floodFill raised cv2.error
Raised(error) == [pc |-> "raised", error |-> error]

\* A left click at (x, y).  cv2.floodFill raises "Seed point is outside of
\* image" for a seed off the canvas, before line 32 is reached; otherwise it
\* starts on work_img, a copy of img, with a fresh mask, marks the seed
\* (255 << 8) and puts it on its worklist.
Click(x, y) ==
    /\ app = "floodfill"
    /\ fill.pc \in {"idle", "raised"}
    /\ IF SeedInBounds(x, y)
       THEN fill' = [pc |-> "filling", seed |-> <<x, y>>,
                     work_img |-> Get(img),
                     mask |-> [FreshMask EXCEPT ![<<x + 1, y + 1>>] = 255],
                     work |-> {<<x, y>>}]
       ELSE fill' = Raised("Seed point is outside of image")
    /\ UNCHANGED <<app, apiVars, img, current_mask, tol, probe>>

\* cv2.floodFill takes a pixel off its worklist, marks each neighbour that is
\* unmarked (the border cells are 1) and joins the region, and queues it;
\* with FLOODFILL_MASK_ONLY it reads work_img and never paints it
FillStep ==
    /\ app = "floodfill"
    /\ fill.pc = "filling"
    /\ \E p \in fill.work :
          LET img0 == fill.work_img
              new == {q \in Neighbours(p) :
                        /\ Unmarked(fill.mask, q)
                        /\ q \in Pixels
                        /\ Joins(img0, fill.seed, p, q)}
          IN fill' = [fill EXCEPT
                        !.mask = [c \in MaskCells |->
                                    IF <<c[1] - 1, c[2] - 1>> \in new
                                    THEN 255 ELSE fill.mask[c]],
                        !.work = (fill.work \ {p}) \cup new]
    /\ UNCHANGED <<app, apiVars, img, current_mask, tol, probe>>

\* the worklist is empty: cv2.floodFill returns and the handler keeps
\* current_mask = mask[1:-1, 1:-1]
FillReturn ==
    /\ app = "floodfill"
    /\ fill.pc = "filling"
    /\ fill.work = {}
    /\ current_mask' = Some(InnerMask(fill.mask))
    /\ fill' = Idle
    /\ UNCHANGED <<app, apiVars, img, tol, probe>>

\* main(): img = cv2.imread(IMAGE_PATH), any canvas over the palette
InitFloodFill ==
    /\ app = "floodfill"
    /\ img \in {Some(c) : c \in [Pixels -> Palette]}
    /\ current_mask = None
    /\ fill = Idle
    /\ tol = TOLERANCE
    /\ probe = None
    /\ images = NoImages
    /\ image_store = NoImages
    /\ files = NoImages
    /\ deselections = << >>
    /\ projects = ProjectOwner
    /\ issued = 0
    /\ reqs = NoRequests

\* where the mouse can be: on the canvas or one pixel off it
ClickXs == (-1)..CanvasW
ClickYs == (-1)..Cardinality(CanvasRows)

NextFloodFill ==
    \/ \E x \in ClickXs, y \in ClickYs : Click(x, y)
    \/ FillStep
    \/ FillReturn

SpecFloodFill == InitFloodFill /\ [][NextFloodFill]_vars

\* Whether a fill returns depends on the canvas only through the pixels that
\* join the seed's region: black and the red that does not join it give every
\* such partition of the canvas
TwoTone == { <<0, 0, 0>>, <<0, 0, 60>> }

\* main(): img = cv2.imread(IMAGE_PATH), any canvas of the two colours
InitFloodFillFair ==
    /\ app = "floodfill"
    /\ img \in {Some(c) : c \in [Pixels -> TwoTone]}
    /\ current_mask = None
    /\ fill = Idle
    /\ tol = TOLERANCE
    /\ probe = None
    /\ images = NoImages
    /\ image_store = NoImages
    /\ files = NoImages
    /\ deselections = << >>
    /\ projects = ProjectOwner
    /\ issued = 0
    /\ reqs = NoRequests

\* cv2.floodFill is one synchronous call: once started it keeps running until
\* it returns
SpecFloodFillFair ==
    /\ InitFloodFillFair
    /\ [][NextFloodFill]_vars
    /\ WF_vars(FillStep)
    /\ WF_vars(FillReturn)

\* The values TOLERANCE is set to ("Default is 40" says the file): one that
\* keeps grey and red apart, the file's value, one that joins red to black
Tolerances == {30, TOLERANCE, 60}

\* The tool is closed and started again on the same image with a larger
\* TOLERANCE: the globals are set anew (current_mask = None); probe keeps the
\* mask the run before produced for the seed under study.
Rerun(t) ==
    /\ app = "floodfill"
    /\ fill.pc = "idle"
    /\ current_mask # None
    /\ probe # None
    /\ Get(probe).earlier = None
    /\ t > tol
    /\ probe' = Some([Get(probe) EXCEPT
                        !.earlier = Some([tol |-> tol,
                                          mask |-> Get(current_mask)])])
    /\ tol' = t
    /\ current_mask' = None
    /\ UNCHANGED <<app, apiVars, img, fill>>

\* one click per run, on the seed under study
ProbeClick ==
    /\ probe # None
    /\ current_mask = None
    /\ Click(Get(probe).seed[1], Get(probe).seed[2])

\* any canvas, any seed on it, any configured tolerance
InitTolerance ==
    /\ app = "floodfill"
    /\ img \in {Some(c) : c \in [Pixels -> Palette]}
    /\ current_mask = None
    /\ fill = Idle
    /\ tol \in Tolerances
    /\ probe \in {Some([seed |-> s, earlier |-> None]) : s \in Pixels}
    /\ images = NoImages
    /\ image_store = NoImages
    /\ files = NoImages
    /\ deselections = << >>
    /\ projects = ProjectOwner
    /\ issued = 0
    /\ reqs = NoRequests

NextTolerance ==
    \/ ProbeClick
    \/ FillStep
    \/ FillReturn
    \/ \E t \in Tolerances : Rerun(t)

SpecTolerance == InitTolerance /\ [][NextTolerance]_vars

\* ------------------------------------------------------------------------
\* Claims about requests in flight together (SpecConcurrent)
\* ------------------------------------------------------------------------
\* C16: once both transform requests for an image have completed
\* successfully, its stored transformed file is the canvas of the stored
\* real_width and real_height: file and dimensions come from one request.
C16_FileMatchesCommittedDimensions ==
    (\A r \in ReqIds : reqs[r].pc = "done" /\ reqs[r].code = 200) =>
       \A i \in DOMAIN images :
          images[i].status = "ready" =>
             files[i] =
                Some(WarpPerspective(
                        [width |-> images[i].width_px,
                         height |-> images[i].height_px],
                        OutputWidth(Get(images[i].real_width),
                                    Get(images[i].real_height)),
                        OutputHeight))

\* ------------------------------------------------------------------------
\* Claims about the flood fill (SpecFloodFill)
\* ------------------------------------------------------------------------
\* the pixels reachable from the seed by 4-connected steps through pixels
\* within the tolerance of the seed's colour, grown to a fixed point
RECURSIVE Grow(_, _, _, _)
Grow(canvas, seed, tolerance, region) ==
    LET more == {q \in Pixels :
                   /\ Within(canvas[q], canvas[seed], tolerance)
                   /\ \E p \in region : q \in Neighbours(p)}
    IN IF more \subseteq region THEN region
       ELSE Grow(canvas, seed, tolerance, region \cup more)

Region(canvas, seed, tolerance) == Grow(canvas, seed, tolerance, {seed})

\* C10: whatever order the fill visits pixels in, the mask one click leaves
\* is 255 exactly on the pixels 4-connected to the seed through pixels within
\* TOLERANCE of the seed's colour in every channel, and 0 on every other one.
C10_MaskIsSeedRegion ==
    [][(fill.pc = "filling" /\ fill'.pc = "idle") =>
          /\ current_mask' # None
          /\ \A p \in Pixels :
                Get(current_mask')[p] =
                   IF p \in Region(Get(img), fill.seed, TOLERANCE)
                   THEN 255 ELSE 0]_vars

\* C10 witness: a finished mask that stops at a pixel which is within the
\* tolerance of its marked neighbour but not of the seed
C10_Witness ==
    /\ current_mask # None
    /\ fill.pc = "idle"
    /\ \E p, q \in Pixels :
          /\ q \in Neighbours(p)
          /\ Get(current_mask)[p] = 255
          /\ Get(current_mask)[q] = 0
          /\ Within(Get(img)[q], Get(img)[p], TOLERANCE)

\* C11: for one canvas and one seed, the mask of the run with the smaller
\* tolerance is a subset of the mask of the run with the larger tolerance.
C11_MaskMonotonicInTolerance ==
    (probe # None /\ current_mask # None /\ Get(probe).earlier # None) =>
       /\ Get(Get(probe).earlier).tol < tol
       /\ \A p \in Pixels :
             Get(Get(probe).earlier).mask[p] = 255 => Get(current_mask)[p] = 255

\* C11 witness: the second run's mask holds a pixel the first run's did not
C11_Witness ==
    /\ probe # None
    /\ current_mask # None
    /\ Get(probe).earlier # None
    /\ \E p \in Pixels :
          /\ Get(Get(probe).earlier).mask[p] = 0
          /\ Get(current_mask)[p] = 255

\* C12: the held mask accumulates over the clicks: a pixel selected by an
\* earlier click is still selected after every later step.
C12_MaskAccumulates ==
    [][\A p \in Pixels :
          (current_mask # None /\ Get(current_mask)[p] = 255)
             => (current_mask' # None /\ Get(current_mask')[p] = 255)]_vars

\* C13: a click whose seed lies off the canvas ends in the seed-out-of-bounds
\* error and leaves the held mask and the canvas as they were: a step that
\* does not is no step of such a click.
C13_SeedOutOfBoundsRejected ==
    [][\/ /\ fill'.pc = "raised"
          /\ fill'.error = "Seed point is outside of image"
          /\ UNCHANGED <<img, current_mask>>
       \/ \A x \in ClickXs, y \in ClickYs :
             <<x, y>> \notin Pixels => ~Click(x, y)]_vars

\* C13 witness: the error was raised while a mask with a selection is held
C13_Witness ==
    /\ fill.pc = "raised"
    /\ current_mask # None
    /\ \E p \in Pixels : Get(current_mask)[p] = 255

\* C14: a held mask has exactly the pixels of the canvas (never the cells of
\* the larger working mask), and no step changes the canvas img.
C14_MaskCongruentCanvasUntouched ==
    [][/\ img' = img
       /\ current_mask' # None =>
             DOMAIN Get(current_mask') = DOMAIN Get(img')]_vars

\* C14 witness: a mask is held after a fill that marked a pixel in the last
\* column and the last row of the canvas
C14_Witness ==
    /\ current_mask # None
    /\ fill.pc = "idle"
    /\ \E p \in Pixels :
          /\ p[1] = CanvasW - 1
          /\ p[2] + 1 \notin CanvasRows
          /\ Get(current_mask)[p] = 255

\* C15: every fill that starts returns; its worklist never holds more
\* entries than the canvas has pixels; a pixel enters the worklist only while
\* unmarked and is marked as it enters, and no mark is ever taken back, so
\* each pixel is added at most once.
C15_FillTerminatesWorklistBounded ==
    /\ [](fill.pc = "filling" =>
             /\ fill.work \subseteq Pixels
             /\ Cardinality(fill.work) <= Cardinality(Pixels))
    /\ [][(fill.pc = "filling" /\ fill'.pc = "filling") =>
             /\ \A q \in fill'.work \ fill.work :
                   Unmarked(fill.mask, q) /\ ~Unmarked(fill'.mask, q)
             /\ \A q \in Pixels :
                   ~Unmarked(fill.mask, q) => ~Unmarked(fill'.mask, q)]_vars
    /\ (fill.pc = "filling") ~> (fill.pc = "idle")

\* C15 witness: a fill returned after marking every pixel of the canvas
C15_Witness ==
    /\ fill.pc = "idle"
    /\ current_mask # None
    /\ \A p \in Pixels : Get(current_mask)[p] = 255

\* ------------------------------------------------------------------------
\* Claims about analysis submissions (SpecAnalysis)
\* ------------------------------------------------------------------------
\* the step in which the commit of request r, a save_image_analysis call,
\* takes effect
AnalysisCommitted(r) ==
    /\ At(r, "analysis", "await_commit")
    /\ reqs'[r].pc = "await_refresh"

\* C1: the commit of a save_image_analysis call leaves the image's stored
\* deselection list equal to the submitted list when one is supplied and
\* unchanged when none is; every other step, a failure between the delete and
\* the commit included, leaves the stored table as it was.
C1_DeselectionsReplacedAtomically ==
    [][IF \E r \in ReqIds : AnalysisCommitted(r)
       THEN \A r \in ReqIds :
               AnalysisCommitted(r) =>
                  DeselectionsOf(deselections', reqs[r].image_id) =
                     IF reqs[r].analysis.deselections = None
                     THEN DeselectionsOf(deselections, reqs[r].image_id)
                     ELSE DeselectionRows(reqs[r].image_id,
                                          Get(reqs[r].analysis.deselections))
       ELSE deselections' = deselections]_vars

\* C1 witness: image 1 holds a submitted two-item list after a call answered
\* 200, where it held none before
C1_Witness ==
    /\ reqs[Only].pc = "done"
    /\ reqs[Only].code = 200
    /\ reqs[Only].detail = "analysis"
    /\ DeselectionsOf(deselections, 1) =
          <<DeselectionRow(1, IrregularItem), DeselectionRow(1, RectItem)>>

\* C2 as claimed: after the commit of a submission every AreaSummary field of
\* the image holds that submission's value, none a value of an earlier one.
C2_AllFieldsFromOneSubmission ==
    [][\A r \in ReqIds :
          AnalysisCommitted(r) =>
             \A f \in SummaryFields :
                images'[reqs[r].image_id][f] = reqs[r].analysis[f]]_vars

Max(a, b) == IF a >= b THEN a ELSE b

\* C3: the stored usable_area of every image is
\* max(0, real_width * real_height - effective_deselect_area).
C3_UsableAreaClamped ==
    \A i \in DOMAIN images :
       (/\ images[i].usable_area # None
        /\ images[i].effective_deselect_area # None
        /\ images[i].real_width # None
        /\ images[i].real_height # None)
       => LET width == Get(images[i].real_width)
              height == Get(images[i].real_height)
              scale == Pow2(width.k + height.k)
          IN Get(images[i].usable_area) * scale =
                Max(0, width.n * height.n
                        - Get(images[i].effective_deselect_area) * scale)

\* C4: cemented_percent is within [0,100] when usable_area > 0 and unset when
\* usable_area = 0.
C4_CementedPercentGuarded ==
    \A i \in DOMAIN images :
       images[i].usable_area # None =>
          /\ (Get(images[i].usable_area) > 0 /\ images[i].cemented_percent # None)
                => Get(images[i].cemented_percent) \in 0..100
          /\ Get(images[i].usable_area) = 0 => images[i].cemented_percent = None

\* the area of one deselection by its shape's formula; pi is taken as 355/113
\* and the circle's area rounded down
ItemArea(r) ==
    IF r.shape = "rect" THEN Get(r.length) * Get(r.breadth) * r.count
    ELSE IF r.shape = "circle"
    THEN (355 * Get(r.diameter) * Get(r.diameter) * r.count) \div (113 * 4)
    ELSE Get(r.area) * r.count

RECURSIVE SumAreas(_)
SumAreas(rows) ==
    IF rows = << >> THEN 0 ELSE ItemArea(Head(rows)) + SumAreas(Tail(rows))

\* C5: the stored deselect_area of every image is the sum of the areas of its
\* stored deselection items, and effective_deselect_area equals deselect_area.
C5_DeselectAreaIsSumOfItems ==
    \A i \in DOMAIN images :
       images[i].deselect_area # None =>
          /\ Get(images[i].deselect_area) = SumAreas(DeselectionsOf(deselections, i))
          /\ images[i].effective_deselect_area = images[i].deselect_area

\* ------------------------------------------------------------------------
\* Claims about transform requests (SpecTransform)
\* ------------------------------------------------------------------------
\* In this step the body of a transform handler runs for an existing image
\* with these inputs: transform_project_image on from the answer of its
\* lookup (readable: cv2.imread gives the stored original), main.py's
\* transform_image as a whole (its original is held in image_store).
TransformRuns(r, corners, width, height, readable) ==
    \/ /\ app = "project"
       /\ At(r, "transform", "await_select")
       /\ reqs[r].corners = corners
       /\ reqs[r].width = width
       /\ reqs[r].height = height
       /\ FindImage(reqs[r].user, reqs[r].project_id, reqs[r].image_id)
       /\ \E cv2ok \in WarpOutcomes(width, height) :
             TransformProjectImageRun(r, readable, cv2ok)
    \/ /\ app = "main"
       /\ readable
       /\ Free(r)
       /\ reqs'[r] # reqs[r]
       /\ reqs'[r].pc = "done"
       /\ \E iid \in DOMAIN image_store :
             \E cv2ok \in WarpOutcomes(width, height) :
                TransformImage(r, iid, corners, width, height, cv2ok)

\* the step answers request r with one of these status codes
AnswersWith(r, codes) ==
    /\ reqs'[r].pc = "done"
    /\ reqs'[r].code \in codes

\* the stored state of both apps: projects, rows, files, image_store
StoredUnchanged ==
    UNCHANGED <<projects, images, deselections, files, image_store>>

\* n is the quotient 800 * width / height rounded to the nearest integer
\* (both sides of the comparison times 2^(width.k + height.k))
IsNearest(n, width, height) ==
    2 * Abs(n * height.n * Pow2(width.k)
               - OutputHeight * width.n * Pow2(height.k))
       <= Abs(height.n) * Pow2(width.k)

\* a canvas n x 800 with the destination corners (0,0), (n,0), (n,800),
\* (0,800)
CanvasIs(canvas, n) ==
    /\ Get(canvas).width = n
    /\ Get(canvas).height = 800
    /\ Get(canvas).dst = << <<0, 0>>, <<n, 0>>, <<n, 800>>, <<0, 800>> >>

\* a response body reporting n x 800
BodyIs(body, n) ==
    /\ Get(body).width = n
    /\ Get(body).height = 800

\* the sizes with positive width and height
PositiveSizes == {s \in Sizes : s[1].n > 0 /\ s[2].n > 0}

\* in this step request r, a project transform for a width x height surface,
\* stores its canvas
ProjectTransformDone(r, width, height) ==
    /\ At(r, "transform", "await_select")
    /\ reqs[r].width = width
    /\ reqs[r].height = height
    /\ reqs'[r].pc = "await_commit"

\* in this step request r, a project transform for a width x height surface,
\* is answered 200
ProjectTransformAnswered(r, width, height) ==
    /\ At(r, "transform", "await_refresh")
    /\ reqs[r].width = width
    /\ reqs[r].height = height
    /\ AnswersWith(r, {200})

\* in this step main.py's transform_image succeeds for image iid and a
\* width x height surface
MainTransformDone(r, iid, width, height) ==
    /\ app = "main"
    /\ Free(r)
    /\ AnswersWith(r, {200})
    /\ reqs'[r].detail = "transform"
    /\ Get(reqs'[r].body).image_id = iid
    /\ Get(reqs'[r].body).real_dimensions.width = width
    /\ Get(reqs'[r].body).real_dimensions.height = height

\* C6 as claimed: a transform with positive real width and height produces a
\* canvas 800 high and round(800 * real_width / real_height) wide, with the
\* destination corners (0,0), (w,0), (w,800), (0,800).
C6_OutputWidthRounded ==
    [][\A r \in ReqIds, size \in PositiveSizes :
         /\ ProjectTransformDone(r, size[1], size[2])
             => /\ IsNearest(Get(files'[reqs[r].image_id]).width, size[1], size[2])
                /\ CanvasIs(files'[reqs[r].image_id],
                            Get(files'[reqs[r].image_id]).width)
         /\ ProjectTransformAnswered(r, size[1], size[2])
             => /\ IsNearest(Get(reqs'[r].body).width, size[1], size[2])
                /\ BodyIs(reqs'[r].body, Get(files[reqs[r].image_id]).width)
         /\ \A iid \in DOMAIN image_store :
               MainTransformDone(r, iid, size[1], size[2])
                  => /\ IsNearest(Get(files'[iid]).width, size[1], size[2])
                     /\ CanvasIs(files'[iid], Get(files'[iid]).width)
                     /\ BodyIs(reqs'[r].body, Get(files'[iid]).width)
                     /\ image_store'[iid].transformed = files'[iid]]_vars

\* the corner lists that do not hold exactly 4 points
WrongCount == {c \in CornerTexts : c.kind = "list" /\ Len(c.items) # 4}

\* C7: when the body of a transform handler runs for an existing image with a
\* corner list that does not hold exactly 4 points, the request is answered
\* 400 'Exactly 4 corners required' and no stored state changes.
C7_WrongCornerCountRejected ==
    [][\A r \in ReqIds, corners \in WrongCount, size \in Sizes,
          readable \in BOOLEAN :
          TransformRuns(r, corners, size[1], size[2], readable) =>
             /\ AnswersWith(r, {400})
             /\ reqs'[r].detail = "Exactly 4 corners required"
             /\ reqs'[r].body = None
             /\ StoredUnchanged]_vars

\* C7 witness: a request was answered "Exactly 4 corners required"
C7_Witness ==
    /\ reqs[Only].pc = "done"
    /\ reqs[Only].code = 400
    /\ reqs[Only].detail = "Exactly 4 corners required"

\* the corner lists of four points, each with its x and y
FourCorners ==
    {c \in CornerTexts :
        /\ c.kind = "list"
        /\ Len(c.items) = 4
        /\ \A k \in 1..4 : Len(c.items[k]) = 2}

\* C8: when the body of a transform handler runs for an existing, readable
\* image with four corners and a real width or height that is not strictly
\* positive, the request is answered with a validation error (400) and no
\* stored state changes.
C8_NonPositiveLengthRejected ==
    [][\A r \in ReqIds, corners \in FourCorners, size \in Sizes :
          ((size[1].n <= 0 \/ size[2].n <= 0)
              /\ TransformRuns(r, corners, size[1], size[2], TRUE)) =>
             /\ AnswersWith(r, {400})
             /\ StoredUnchanged]_vars

\* twice the signed area of the triangle a, b, c
Cross(a, b, c) == (b[1] - a[1]) * (c[2] - a[2]) - (b[2] - a[2]) * (c[1] - a[1])

\* four corners of which three lie on one line (a repeated corner included)
Degenerate(corners) ==
    /\ \E i, j, k \in 1..4 :
          /\ i < j
          /\ j < k
          /\ Cross(corners.items[i], corners.items[j], corners.items[k]) = 0

\* C9: when the body of a transform handler runs for an existing, readable
\* image with degenerate corners (and positive lengths), the request ends in
\* an error response; no canvas is produced or stored and no row is left
\* waiting to become 'ready'.
C9_DegenerateQuadRejected ==
    [][\A r \in ReqIds, corners \in {c \in FourCorners : Degenerate(c)},
          size \in PositiveSizes :
          TransformRuns(r, corners, size[1], size[2], TRUE) =>
             /\ AnswersWith(r, {400, 422, 500})
             /\ StoredUnchanged]_vars

\* ------------------------------------------------------------------------
\* Claims about ownership and the life of an image record (SpecProject)
\* ------------------------------------------------------------------------
\* the image-scoped operations of the project API
ImageScoped ==
    {"get_image", "get_original", "next", "upload", "transform", "analysis"}

\* request r is in flight, image-scoped, for a project that is not its user's
NotOwned(r) ==
    /\ ~Free(r)
    /\ reqs[r].op \in ImageScoped
    /\ ~FindProject(reqs[r].user, reqs[r].project_id)

\* the images of projects that belong to no client
ForeignImages(table, owners) ==
    {i \in DOMAIN table :
        \/ table[i].project_id \notin DOMAIN owners
        \/ owners[table[i].project_id] \notin Clients}

\* the image a response shows, if any
Shown(response) ==
    IF response.code \notin {200, 201} THEN {}
    ELSE IF response.detail \in {"original", "transform"}
    THEN {Get(response.body).image_id}
    ELSE IF response.detail \in {"image", "next", "upload", "analysis"}
    THEN {Get(response.body).id}
    ELSE {}

\* C17: every image-scoped operation (get image, get original, next, upload,
\* transform, save analysis) on a project that is not the user's ends at its
\* ownership query: the query answers and the handler returns 404 'not
\* found' (or the query fails), and no stored state changes; over any
\* sequence of operations the rows, files and deselections of another user's
\* images stay as they were and no response shows such an image.
C17_NotOwnedIsNotFound ==
    [][/\ \A r \in ReqIds :
             (NotOwned(r) /\ reqs'[r] # reqs[r]) =>
                /\ reqs[r].pc = "await_select"
                /\ \/ /\ AnswersWith(r, {404})
                      /\ reqs'[r].detail \in {"Project not found", "Image not found"}
                      /\ reqs'[r].body = None
                   \/ DbError(r)
                /\ StoredUnchanged
       /\ ForeignImages(images', projects') = ForeignImages(images, projects)
       /\ \A i \in ForeignImages(images, projects) :
             /\ images'[i] = images[i]
             /\ files'[i] = files[i]
             /\ DeselectionsOf(deselections', i) = DeselectionsOf(deselections, i)
       /\ \A r \in ReqIds :
             Answers(r) =>
                Shown(reqs'[r]) \cap ForeignImages(images', projects') = {}]_vars

\* the client, holding an image of its own, was refused at another's project
C17_Witness ==
    /\ app = "project"
    /\ reqs[Only].pc = "done"
    /\ reqs[Only].code = 404
    /\ reqs[Only].detail = "Project not found"
    /\ \E i \in DOMAIN images :
          /\ FindProject("alice", images[i].project_id)
          /\ images[i].status = "ready"

\* a 'ready' row has what the transform stores
ReadyComplete(row) ==
    row.status = "ready" =>
       /\ IsSome(row.storage_transformed_path)
       /\ IsSome(row.real_width)
       /\ IsSome(row.real_height)
       /\ IsSome(row.real_unit)

\* the step in which the commit of a transform of image i takes effect
TransformCommitted(i) ==
    \E r \in ReqIds :
       /\ At(r, "transform", "await_commit")
       /\ reqs[r].image_id = i
       /\ reqs'[r].pc = "await_refresh"

\* C18: a row appears with status 'new' (upload), becomes 'ready' at the
\* commit of a transform and at no other step, and is 'ready' for as long as
\* it is stored; a 'ready' row has storage_transformed_path, real_width,
\* real_height and real_unit set, whatever uploads, transforms and analyses
\* (failed ones included) come before or after.
C18_StatusNewThenReady ==
    [][/\ \A i \in DOMAIN images' :
             /\ images'[i].status \in {"new", "ready"}
             /\ ReadyComplete(images'[i])
       /\ \A i \in DOMAIN images' \ DOMAIN images : images'[i].status = "new"
       /\ \A i \in DOMAIN images \cap DOMAIN images' :
             /\ images[i].status = "ready" => images'[i].status = "ready"
             /\ images[i].status = "new" =>
                   (images'[i].status = "ready" <=> TransformCommitted(i))]_vars

\* an uploaded image was transformed and analysed, and a later request on it
\* failed
C18_Witness ==
    /\ app = "project"
    /\ reqs[Only].pc = "done"
    /\ reqs[Only].code \in {400, 500}
    /\ \E i \in DOMAIN images :
          /\ FindProject("alice", images[i].project_id)
          /\ images[i].status = "ready"
          /\ IsSome(images[i].usable_area)

\* ------------------------------------------------------------------------
\* Claims about browsing a project's images (SpecBrowse)
\* ------------------------------------------------------------------------
\* the runs of images a client can see by asking for 'next' again and again
\* in project pid: each image is one that get_next_image can answer with for
\* the image before it
Chains(pid) ==
    LET n == Cardinality(ImagesOf(pid))
    IN {c \in UNION {[1..k -> DOMAIN images] : k \in 1..(n + 1)} :
           /\ c[1] \in ImagesOf(pid)
           /\ \A j \in 1..(Len(c) - 1) :
                 /\ c[j] \in ImagesOf(pid)
                 /\ c[j + 1] \in NextCandidates(pid, images[c[j]].created_at)}

\* the newest images of a project
Newest(pid) ==
    {i \in ImagesOf(pid) :
        \A m \in ImagesOf(pid) : images[m].created_at <= images[i].created_at}

\* C19: following 'next' from any image of an owned project never shows an
\* image twice, never shows an image of another project, and comes to
\* 'No next image' after at most (number of images - 1) steps; from the
\* newest image it shows every image of the project.
C19_NextChainVisitsEveryImage ==
    app = "project" =>
       \A pid \in {p \in DOMAIN projects : projects[p] \in Clients} :
          \A c \in Chains(pid) :
             /\ \A j, k \in DOMAIN c : j # k => c[j] # c[k]
             /\ Range(c) \subseteq ImagesOf(pid)
             /\ Len(c) <= Cardinality(ImagesOf(pid))
             /\ (c[1] \in Newest(pid)
                   /\ NextCandidates(pid, images[c[Len(c)]].created_at) = {}) =>
                   Range(c) = ImagesOf(pid)

====
